---------------------------- MODULE Spec2Model ----------------------------
(***************************************************************************)
(* Item catalog, transaction ledger, recent-match log and cash ledger of   *)
(* ShopHelper (src/item_database.py, src/cash_balance.py).                 *)
(*                                                                         *)
(* Every public method is one action that models the whole call.  A value  *)
(* that Python leaves as None is the empty tuple, a present value v is     *)
(* <<v>>.  A Python dict (insertion ordered) is a sequence of records that *)
(* carry their key in the field "name".  time.time() is the variable       *)
(* clock, which advances by one with every call, so two entries recorded   *)
(* by different calls never fall within the 1 ms tolerance of the lookups. *)
(* A session starts at SessionStart, late enough for every timestamp that  *)
(* earlier sessions left to be positive, as the values of time.time() are. *)
(* Text built with an f-string is the tuple of its parts.                  *)
(***************************************************************************)
EXTENDS Integers, Sequences, FiniteSets

VARIABLES
    items,              \* ItemDatabase.items
    ledger_entries,     \* ItemDatabase.ledger_entries
    recently_logged,    \* ItemDatabase.recently_logged
    cash_balance,       \* CashManager.cash_balance
    cash_transactions,  \* CashManager.cash_transactions
    disk,               \* what the four JSON files hold
    clock,              \* time.time()
    last,               \* the call that led to this state, its arguments and result
    pre,                \* the in-memory stores just before that call
    start               \* the in-memory stores as __init__ loaded them

vars == <<items, ledger_entries, recently_logged, cash_balance,
          cash_transactions, disk, clock, last, pre, start>>

---------------------------------------------------------------------------
(* Bounds of the model *)

\* number of calls in one run
MaxOps == 2

\* number of calls in a run that starts with the ledger near its cap
MaxCapOps == 2

\* number of calls in a run on the recent-match log
MaxLogOps == 3

\* item names the calls are made with
Names == {"A", "B"}

\* the arguments the calls are made with
PriceArgs == {2, 3}
StockArgs == {-1, 0, 4}
DeltaArgs == {-5, -1, 2}
QuantityArgs == {0, 1, 4}
SellingPriceArgs == {<<>>, <<5>>}
AmountArgs == {0, 1, 7}

\* (transaction_type, use_cash, a cash manager is passed)
FundingArgs == {<<"adjustment", FALSE, FALSE>>, <<"purchase", TRUE, FALSE>>,
                <<"purchase", TRUE, TRUE>>}

---------------------------------------------------------------------------
(* Program constants *)

\* item_database.py:637  if len(self.ledger_entries) > 1000
LedgerCap == 1000

\* item_database.py:322  if len(self.recently_logged) > 100
LogCap == 100

\* time.time() when the session starts: the files hold at most LedgerCap earlier
\* entries, one per unit of time
SessionStart == LedgerCap + 1

---------------------------------------------------------------------------
(* Python values *)

None == <<>>
Some(v) == <<v>>

Max(a, b) == IF a >= b THEN a ELSE b
Abs(a) == IF a >= 0 THEN a ELSE -a

\* d.get(key, default) on a dict modelled as a record
DictGet(d, key, default) == IF key \in DOMAIN d THEN d[key] ELSE default

\* list.insert(0, x)
InsertFront(l, x) == <<x>> \o l

\* l[:n]
Prefix(l, n) == SubSeq(l, 1, IF Len(l) < n THEN Len(l) ELSE n)

\* list.pop(i), 1-based
PopAt(l, i) == SubSeq(l, 1, i - 1) \o SubSeq(l, i + 1, Len(l))

---------------------------------------------------------------------------
(* The items dict *)

\* item_name in self.items
HasItem(its, item_name) == \E i \in 1..Len(its) : its[i].name = item_name

ItemIndex(its, item_name) == CHOOSE i \in 1..Len(its) : its[i].name = item_name

\* self.items[item_name]
ItemOf(its, item_name) == its[ItemIndex(its, item_name)]

\* SetItem with a fault: a second record is added for a key the dict already holds
SetItemAppending(its, item_name, data) ==
    Append(its, [name |-> item_name, price |-> data.price, stock |-> data.stock])

\* self.items[item_name] = data : an existing key keeps its place, a new one goes last
SetItem(its, item_name, data) ==
    LET rec == [name |-> item_name, price |-> data.price, stock |-> data.stock]
    IN  IF HasItem(its, item_name)
        THEN [its EXCEPT ![ItemIndex(its, item_name)] = rec]
        ELSE Append(its, rec)

\* del self.items[item_name]
DelItem(its, item_name) == SelectSeq(its, LAMBDA r : r.name # item_name)

\* self.items[item_name]['stock'] = stock
SetStock(its, item_name, stock) ==
    [its EXCEPT ![ItemIndex(its, item_name)].stock = stock]

\* self.items[item_name]['price'] = price
SetPrice(its, item_name, price) ==
    [its EXCEPT ![ItemIndex(its, item_name)].price = price]

\* self.items.get(item_name, None)
get_item(its, item_name) ==
    IF HasItem(its, item_name) THEN Some(ItemOf(its, item_name)) ELSE None

---------------------------------------------------------------------------
(* Matching a recognised text against the catalog *)

\* str.lower() on the names and texts the matcher is called with
lower(s) == CASE s = "A" -> "a" [] s = "B" -> "b" [] s = "C" -> "c" [] OTHER -> s

\* item_name.lower() == text.lower()
SameIgnoringCase(item_name, text) == lower(item_name) = lower(text)

\* FirstExact with a fault: the loop does not stop at its first hit
LastExact(its, text) ==
    CHOOSE i \in 1..Len(its) :
        /\ SameIgnoringCase(its[i].name, text)
        /\ \A j \in (i + 1)..Len(its) : ~SameIgnoringCase(its[j].name, text)

\* where the loop over self.items returns: the first key equal to the text up to case
FirstExact(its, text) ==
    CHOOSE i \in 1..Len(its) :
        /\ SameIgnoringCase(its[i].name, text)
        /\ \A j \in 1..(i - 1) : ~SameIgnoringCase(its[j].name, text)

\* process.extractOne(text, item_names, scorer=fuzz.token_set_ratio): the name of
\* the highest score, the first of them when several share it.  The scores are
\* the library's answer, a number from 0 to 100 for each name.
extractOne(its, scores) ==
    CHOOSE i \in 1..Len(its) :
        /\ \A j \in 1..Len(its) : scores[its[j].name] <= scores[its[i].name]
        /\ \A j \in 1..(i - 1) : scores[its[j].name] < scores[its[i].name]

\* item_data = self.items[name].copy() with 'name' and 'match_score' set
MatchData(its, i, score) ==
    [name |-> its[i].name, price |-> its[i].price, stock |-> its[i].stock,
     match_score |-> score]

\* what match_item returns
match_item(its, text, min_score, scores) ==
    IF text = "" \/ its = <<>> THEN None
    ELSE IF \E i \in 1..Len(its) : SameIgnoringCase(its[i].name, text)
         THEN Some(MatchData(its, FirstExact(its, text), 100))
    ELSE LET match == extractOne(its, scores)
             score == scores[its[match].name]
         IN  IF score >= min_score THEN Some(MatchData(its, match, score)) ELSE None

---------------------------------------------------------------------------
(* Persistence: each save_* writes the store it is given to its file *)

save_items(d, its) == [d EXCEPT !.items = its]
save_ledger(d, led) == [d EXCEPT !.ledger = led]
save_logs(d, logs) == [d EXCEPT !.logs = logs]
save_cash_data(d, bal, txs) ==
    [d EXCEPT !.cash_balance = bal, !.transactions = txs]

Snapshot ==
    [items |-> items, ledger_entries |-> ledger_entries,
     recently_logged |-> recently_logged, cash_balance |-> cash_balance,
     cash_transactions |-> cash_transactions]

\* the bookkeeping every call ends with; writes lists the files the call wrote, in order
Return(op, args, result, writes) ==
    /\ last' = [op |-> op, args |-> args, result |-> result, time |-> clock,
                writes |-> writes]
    /\ pre' = Snapshot
    /\ clock' = clock + 1
    /\ UNCHANGED start

---------------------------------------------------------------------------
(* Ledger *)

\* LedgerEntry with a fault: the default quantity keeps the sign of the change
LedgerEntrySigned(now, item_name, old_stock, new_stock, transaction_type, price, quantity, value, selling_price) ==
    LET q == IF quantity = None THEN new_stock - old_stock ELSE quantity[1]
        actual_price == IF selling_price # None THEN selling_price[1] ELSE price
        v == IF value = None THEN q * actual_price ELSE value[1]
    IN  [timestamp |-> now, item_name |-> item_name, old_stock |-> old_stock,
         new_stock |-> new_stock, quantity |-> q, price |-> price,
         selling_price |-> selling_price, value |-> v,
         transaction_type |-> transaction_type]

\* the entry add_to_ledger builds
LedgerEntry(now, item_name, old_stock, new_stock, transaction_type, price, quantity, value, selling_price) ==
    LET q == IF quantity = None THEN Abs(new_stock - old_stock) ELSE quantity[1]
        actual_price == IF selling_price # None THEN selling_price[1] ELSE price
        v == IF value = None THEN q * actual_price ELSE value[1]
    IN  [timestamp |-> now, item_name |-> item_name, old_stock |-> old_stock,
         new_stock |-> new_stock, quantity |-> q, price |-> price,
         selling_price |-> selling_price, value |-> v,
         transaction_type |-> transaction_type]

\* CapLedger with a fault: the list is cut one entry too early
CapLedgerOffByOne(led) ==
    IF Len(led) > LedgerCap - 1 THEN Prefix(led, LedgerCap - 1) ELSE led

\* if len(self.ledger_entries) > 1000: self.ledger_entries = self.ledger_entries[:1000]
CapLedger(led) == IF Len(led) > LedgerCap THEN Prefix(led, LedgerCap) ELSE led

\* the list add_to_ledger leaves in self.ledger_entries
add_to_ledger(led, now, item_name, old_stock, new_stock, transaction_type, price, quantity, value, selling_price) ==
    CapLedger(InsertFront(led,
        LedgerEntry(now, item_name, old_stock, new_stock, transaction_type,
                    price, quantity, value, selling_price)))

\* filtered_entries[:limit] of get_ledger_entries; a filter that is None or empty
\* is not applied
get_ledger_entries(led, limit, transaction_type, item_name) ==
    LET by_type == IF transaction_type # None /\ transaction_type # Some("")
                   THEN SelectSeq(led, LAMBDA e :
                            DictGet(e, "transaction_type", None) = transaction_type[1])
                   ELSE led
        by_name == IF item_name # None /\ item_name # Some("")
                   THEN SelectSeq(by_type, LAMBDA e :
                            DictGet(e, "item_name", None) = item_name[1])
                   ELSE by_type
    IN  Prefix(by_name, limit)

---------------------------------------------------------------------------
(* Derived views *)

\* the truth value Python gives a timestamp that may be None
Truthy(timestamp) == timestamp # None /\ timestamp[1] # 0

\* max(entry.get('timestamp', 0) for entry in sales), for sales that are not empty
LastTimestamp(sales) ==
    CHOOSE t \in {DictGet(sales[i], "timestamp", 0) : i \in 1..Len(sales)} :
        \A i \in 1..Len(sales) : DictGet(sales[i], "timestamp", 0) <= t

\* calculate_price_adjustment with a fault: the sales of every item count
calculate_price_adjustment_any_item(its, led, now, item_name) ==
    IF ~HasItem(its, item_name) THEN [recommended |-> FALSE]
    ELSE LET current_price == ItemOf(its, item_name).price
             current_stock == ItemOf(its, item_name).stock
             sales == SelectSeq(led, LAMBDA e :
                          DictGet(e, "transaction_type", None) = "sale")
             last_sale_timestamp == IF sales # <<>> THEN Some(LastTimestamp(sales))
                                    ELSE None
             highlighted == current_stock > 0 /\ ~Truthy(last_sale_timestamp)
         IN  IF current_stock = 0 THEN [recommended |-> FALSE]
             ELSE [recommended |-> highlighted,
                   reason |-> IF highlighted THEN "Never been sold" ELSE "",
                   last_sale_days |-> IF Truthy(last_sale_timestamp)
                                      THEN <<now - last_sale_timestamp[1], 60 * 60 * 24>>
                                      ELSE <<999, 1>>,
                   suggested_price |-> current_price]

\* what calculate_price_adjustment returns at the time now; last_sale_days is the
\* pair (seconds, seconds in a day) of the quotient
calculate_price_adjustment(its, led, now, item_name) ==
    IF ~HasItem(its, item_name) THEN [recommended |-> FALSE]
    ELSE LET current_price == ItemOf(its, item_name).price
             current_stock == ItemOf(its, item_name).stock
             sales == SelectSeq(led, LAMBDA e :
                          /\ DictGet(e, "item_name", None) = item_name
                          /\ DictGet(e, "transaction_type", None) = "sale")
             last_sale_timestamp == IF sales # <<>> THEN Some(LastTimestamp(sales))
                                    ELSE None
             highlighted == current_stock > 0 /\ ~Truthy(last_sale_timestamp)
         IN  IF current_stock = 0 THEN [recommended |-> FALSE]
             ELSE [recommended |-> highlighted,
                   reason |-> IF highlighted THEN "Never been sold" ELSE "",
                   last_sale_days |-> IF Truthy(last_sale_timestamp)
                                      THEN <<now - last_sale_timestamp[1], 60 * 60 * 24>>
                                      ELSE <<999, 1>>,
                   suggested_price |-> current_price]

---------------------------------------------------------------------------
(* A call of match_item: it reads the catalog and changes nothing *)

call_match_item(text, min_score, scores) ==
    /\ UNCHANGED <<items, ledger_entries, recently_logged, cash_balance,
                   cash_transactions, disk>>
    /\ Return("match_item", [text |-> text, min_score |-> min_score, scores |-> scores],
              match_item(items, text, min_score, scores), <<>>)

---------------------------------------------------------------------------
(* Cash manager *)

\* the entry add_transaction appends
CashEntry(transaction_data) ==
    [timestamp |-> transaction_data.timestamp,
     item_name |-> transaction_data.description,
     old_stock |-> 0, new_stock |-> 0, quantity |-> 0, price |-> 0,
     selling_price |-> None, value |-> transaction_data.value,
     transaction_type |-> "cash"]

\* BalanceAfter with a fault: the balance is not taken from the transaction
BalanceAfterIgnored(balance, transaction_data) == balance

\* self.cash_balance = transaction_data.get('new_balance', self.cash_balance)
BalanceAfter(balance, transaction_data) ==
    DictGet(transaction_data, "new_balance", balance)

\* self.cash_transactions.append(ledger_entry)
TransactionsAfter(txs, transaction_data) == Append(txs, CashEntry(transaction_data))

\* PurchaseTransaction with a fault: the purchase is booked as income
PurchaseTransactionCredited(now, item_name, quantity, purchase_value, current_cash) ==
    [timestamp |-> now, description |-> <<"Purchase", item_name, quantity>>,
     value |-> purchase_value, new_balance |-> current_cash + purchase_value]

\* PurchaseTransaction with a fault: the value recorded has lost its sign
PurchaseTransactionUnsigned(now, item_name, quantity, purchase_value, current_cash) ==
    [timestamp |-> now, description |-> <<"Purchase", item_name, quantity>>,
     value |-> purchase_value, new_balance |-> current_cash - purchase_value]

\* the transaction update_stock and adjust_stock hand to add_transaction
PurchaseTransaction(now, item_name, quantity, purchase_value, current_cash) ==
    [timestamp |-> now, description |-> <<"Purchase", item_name, quantity>>,
     value |-> -purchase_value, new_balance |-> current_cash - purchase_value]

---------------------------------------------------------------------------
(* Catalog operations *)

add_item(item_name, price, stock) ==
    /\ IF item_name = ""
       THEN UNCHANGED <<items, disk>>
       ELSE /\ items' = SetItem(items, item_name, [price |-> price, stock |-> stock])
            /\ disk' = save_items(disk, items')
    /\ UNCHANGED <<ledger_entries, recently_logged, cash_balance, cash_transactions>>
    /\ Return("add_item", [item_name |-> item_name, price |-> price, stock |-> stock],
              item_name # "", IF item_name # "" THEN <<"items">> ELSE <<>>)

\* the files update_stock and adjust_stock write once past the cash check, in order:
\* add_transaction (save_cash_data), add_to_ledger (save_ledger), save_items
StockWrites(funded) ==
    (IF funded THEN <<"cash">> ELSE <<>>) \o <<"ledger", "items">>

\* where a cash-funded purchase is turned down: current_cash < purchase_value
NotEnoughCash(current_cash, purchase_value) == current_cash < purchase_value

update_stock(item_name, stock, transaction_type, use_cash, cash_manager) ==
    LET found == HasItem(items, item_name)
        old_stock == IF found THEN ItemOf(items, item_name).stock ELSE 0
        price == IF found THEN ItemOf(items, item_name).price ELSE 0
        changed == found /\ stock # old_stock
        funded == transaction_type = "purchase" /\ use_cash /\ cash_manager
        quantity == stock - old_stock
        purchase_value == quantity * price
        refused == changed /\ funded /\ NotEnoughCash(cash_balance, purchase_value)
        recorded == changed /\ ~refused
        tx == PurchaseTransaction(clock, item_name, quantity, purchase_value,
                                  cash_balance)
    IN  /\ items' = IF changed THEN SetStock(items, item_name, stock) ELSE items
        /\ cash_balance' = IF recorded /\ funded THEN BalanceAfter(cash_balance, tx)
                           ELSE cash_balance
        /\ cash_transactions' =
              IF recorded /\ funded THEN TransactionsAfter(cash_transactions, tx)
              ELSE cash_transactions
        /\ ledger_entries' =
              IF recorded
              THEN add_to_ledger(ledger_entries, clock, item_name, old_stock, stock,
                                 transaction_type, price, None, None, None)
              ELSE ledger_entries
        /\ disk' =
              IF recorded
              THEN LET d1 == IF funded
                             THEN save_cash_data(disk, cash_balance', cash_transactions')
                             ELSE disk
                   IN  save_items(save_ledger(d1, ledger_entries'), items')
              ELSE disk
        /\ UNCHANGED recently_logged
        /\ Return("update_stock",
                  [item_name |-> item_name, stock |-> stock,
                   transaction_type |-> transaction_type, use_cash |-> use_cash,
                   cash_manager |-> cash_manager],
                  found /\ ~refused, IF recorded THEN StockWrites(funded) ELSE <<>>)

\* update_item with a fault: a rename copies the record and keeps the old key
update_item_copying(item_name, price, new_name, stock) ==
    LET found == HasItem(items, item_name)
        renaming == new_name # None /\ new_name[1] # "" /\ new_name[1] # item_name
        old == ItemOf(items, item_name)
        item_data == [price |-> price,
                      stock |-> IF stock # None THEN stock[1] ELSE old.stock]
    IN  /\ items' =
              IF ~found THEN items
              ELSE IF renaming THEN SetItem(items, new_name[1], item_data)
                   ELSE SetItem(items, item_name, item_data)
        /\ disk' = IF found THEN save_items(disk, items') ELSE disk
        /\ UNCHANGED <<ledger_entries, recently_logged, cash_balance,
                       cash_transactions>>
        /\ Return("update_item",
                  [item_name |-> item_name, price |-> price, new_name |-> new_name,
                   stock |-> stock],
                  found, IF found THEN <<"items">> ELSE <<>>)

update_item(item_name, price, new_name, stock) ==
    LET found == HasItem(items, item_name)
        renaming == new_name # None /\ new_name[1] # "" /\ new_name[1] # item_name
        old == ItemOf(items, item_name)
        item_data == [price |-> price,
                      stock |-> IF stock # None THEN stock[1] ELSE old.stock]
    IN  /\ items' =
              IF ~found THEN items
              ELSE IF renaming
                   THEN DelItem(SetItem(items, new_name[1], item_data), item_name)
                   ELSE SetItem(items, item_name, item_data)
        /\ disk' = IF found THEN save_items(disk, items') ELSE disk
        /\ UNCHANGED <<ledger_entries, recently_logged, cash_balance,
                       cash_transactions>>
        /\ Return("update_item",
                  [item_name |-> item_name, price |-> price, new_name |-> new_name,
                   stock |-> stock],
                  found, IF found THEN <<"items">> ELSE <<>>)

\* delete_item with a fault: no check that the item exists
delete_item_unchecked(item_name) ==
    /\ items' = DelItem(items, item_name)
    /\ disk' = save_items(disk, items')
    /\ UNCHANGED <<ledger_entries, recently_logged, cash_balance, cash_transactions>>
    /\ Return("delete_item", [item_name |-> item_name], TRUE, <<"items">>)

\* delete_item with a fault: the ledger entries of the item go with it
delete_item_cascading(item_name) ==
    LET found == HasItem(items, item_name)
    IN  /\ items' = IF found THEN DelItem(items, item_name) ELSE items
        /\ ledger_entries' =
              IF found
              THEN SelectSeq(ledger_entries,
                             LAMBDA e : DictGet(e, "item_name", None) # item_name)
              ELSE ledger_entries
        /\ disk' = IF found
                   THEN save_items(save_ledger(disk, ledger_entries'), items')
                   ELSE disk
        /\ UNCHANGED <<recently_logged, cash_balance, cash_transactions>>
        /\ Return("delete_item", [item_name |-> item_name], found,
                  IF found THEN <<"ledger", "items">> ELSE <<>>)

delete_item(item_name) ==
    LET found == HasItem(items, item_name)
    IN  /\ items' = IF found THEN DelItem(items, item_name) ELSE items
        /\ disk' = IF found THEN save_items(disk, items') ELSE disk
        /\ UNCHANGED <<ledger_entries, recently_logged, cash_balance,
                       cash_transactions>>
        /\ Return("delete_item", [item_name |-> item_name], found,
                  IF found THEN <<"items">> ELSE <<>>)

\* PriceUpdateEntry with a fault: the two prices change places
PriceUpdateEntrySwapped(now, item_name, old_price, new_price) ==
    [timestamp |-> now, item_name |-> item_name, old_price |-> new_price,
     new_price |-> old_price, transaction_type |-> "price_update"]

\* the entry update_price builds
PriceUpdateEntry(now, item_name, old_price, new_price) ==
    [timestamp |-> now, item_name |-> item_name, old_price |-> old_price,
     new_price |-> new_price, transaction_type |-> "price_update"]

\* self.ledger_entries.append(entry) in update_price
RecordPriceUpdate(led, entry) == Append(led, entry)

update_price(item_name, new_price) ==
    LET found == HasItem(items, item_name)
        old_price == ItemOf(items, item_name).price
    IN  /\ items' = IF found THEN SetPrice(items, item_name, new_price) ELSE items
        /\ ledger_entries' =
              IF found
              THEN RecordPriceUpdate(ledger_entries,
                       PriceUpdateEntry(clock, item_name, old_price, new_price))
              ELSE ledger_entries
        /\ disk' = IF found
                   THEN save_items(save_ledger(disk, ledger_entries'), items')
                   ELSE disk
        /\ UNCHANGED <<recently_logged, cash_balance, cash_transactions>>
        /\ Return("update_price",
                  [item_name |-> item_name, new_price |-> new_price], found,
                  IF found THEN <<"ledger", "items">> ELSE <<>>)

\* ClampedStock with a fault: no clamp
UnclampedStock(current_stock, adjustment) == current_stock + adjustment

\* new_stock = max(0, current_stock + adjustment)
ClampedStock(current_stock, adjustment) == Max(0, current_stock + adjustment)

adjust_stock(item_name, adjustment, transaction_type, use_cash, cash_manager) ==
    LET found == HasItem(items, item_name)
        current_stock == IF found THEN ItemOf(items, item_name).stock ELSE 0
        price == IF found THEN ItemOf(items, item_name).price ELSE 0
        new_stock == ClampedStock(current_stock, adjustment)
        changed == found /\ new_stock # current_stock
        funded == transaction_type = "purchase" /\ adjustment > 0
                  /\ use_cash /\ cash_manager
        purchase_value == adjustment * price
        refused == changed /\ funded /\ NotEnoughCash(cash_balance, purchase_value)
        recorded == changed /\ ~refused
        tx == PurchaseTransaction(clock, item_name, adjustment, purchase_value,
                                  cash_balance)
    IN  /\ items' = IF changed THEN SetStock(items, item_name, new_stock) ELSE items
        /\ cash_balance' = IF recorded /\ funded THEN BalanceAfter(cash_balance, tx)
                           ELSE cash_balance
        /\ cash_transactions' =
              IF recorded /\ funded THEN TransactionsAfter(cash_transactions, tx)
              ELSE cash_transactions
        /\ ledger_entries' =
              IF recorded
              THEN add_to_ledger(ledger_entries, clock, item_name, current_stock,
                                 new_stock, transaction_type, price, None, None, None)
              ELSE ledger_entries
        /\ disk' =
              IF recorded
              THEN LET d1 == IF funded
                             THEN save_cash_data(disk, cash_balance', cash_transactions')
                             ELSE disk
                   IN  save_items(save_ledger(d1, ledger_entries'), items')
              ELSE disk
        /\ UNCHANGED recently_logged
        /\ Return("adjust_stock",
                  [item_name |-> item_name, adjustment |-> adjustment,
                   transaction_type |-> transaction_type, use_cash |-> use_cash,
                   cash_manager |-> cash_manager],
                  found /\ ~refused, IF recorded THEN StockWrites(funded) ELSE <<>>)

\* CanSell with a fault: the check of the stock is missing
CanSellAnyQuantity(quantity, current_stock) == ~(quantity <= 0)

\* mark_as_sold goes on past its two refusals: quantity <= 0, quantity > current_stock
CanSell(quantity, current_stock) == ~(quantity <= 0) /\ ~(quantity > current_stock)

\* sale_value = selling_price * quantity
SaleValue(selling_price, quantity) == selling_price * quantity

mark_as_sold(item_name, quantity, selling_price) ==
    LET found == HasItem(items, item_name)
        current_stock == IF found THEN ItemOf(items, item_name).stock ELSE 0
        default_price == IF found THEN ItemOf(items, item_name).price ELSE 0
        sold == found /\ CanSell(quantity, current_stock)
        new_stock == current_stock - quantity
        unit_price == IF selling_price = None THEN default_price ELSE selling_price[1]
    IN  /\ items' = IF sold THEN SetStock(items, item_name, new_stock) ELSE items
        /\ ledger_entries' =
              IF sold
              THEN add_to_ledger(ledger_entries, clock, item_name, current_stock,
                                 new_stock, "sale", default_price, Some(quantity),
                                 Some(SaleValue(unit_price, quantity)), Some(unit_price))
              ELSE ledger_entries
        /\ disk' = IF sold
                   THEN save_items(save_ledger(disk, ledger_entries'), items')
                   ELSE disk
        /\ UNCHANGED <<recently_logged, cash_balance, cash_transactions>>
        /\ Return("mark_as_sold",
                  [item_name |-> item_name, quantity |-> quantity,
                   selling_price |-> selling_price],
                  sold, IF sold THEN <<"ledger", "items">> ELSE <<>>)

\* abs(entry.get('timestamp', 0) - timestamp) < 0.001 and entry.get('item_name') == item_name
Matches(entry, timestamp, item_name) ==
    /\ DictGet(entry, "timestamp", 0) = timestamp
    /\ DictGet(entry, "item_name", None) = item_name

\* whether the lookup loop finds an entry
HasEntry(l, timestamp, item_name) ==
    \E i \in 1..Len(l) : Matches(l[i], timestamp, item_name)

\* the index at which the lookup loop breaks: the first match
EntryIndex(l, timestamp, item_name) ==
    CHOOSE i \in 1..Len(l) :
        /\ Matches(l[i], timestamp, item_name)
        /\ \A j \in 1..(i - 1) : ~Matches(l[j], timestamp, item_name)

\* ReverseSale with a fault: a sale is reversed like an adjustment, by restoring old_stock
ReverseSaleToOldStock(its, entry, item_name) ==
    IF HasItem(its, item_name)
    THEN SetStock(its, item_name, DictGet(entry, "old_stock", 0))
    ELSE SetItem(its, item_name, [price |-> DictGet(entry, "price", 0),
                                  stock |-> DictGet(entry, "quantity", 0)])

\* ReverseSale with a fault: an item that is gone is not put back
ReverseSaleExistingOnly(its, entry, item_name) ==
    IF HasItem(its, item_name)
    THEN SetStock(its, item_name,
                  ItemOf(its, item_name).stock + DictGet(entry, "quantity", 0))
    ELSE its

\* the items dict after the reversal of a sale entry
ReverseSale(its, entry, item_name) ==
    LET quantity == DictGet(entry, "quantity", 0)
        price == DictGet(entry, "price", 0)
    IN  IF HasItem(its, item_name)
        THEN SetStock(its, item_name, ItemOf(its, item_name).stock + quantity)
        ELSE SetItem(its, item_name, [price |-> price, stock |-> quantity])

\* ReverseAdjustment with a fault: the change of the entry is taken back from the
\* current stock
ReverseAdjustmentByDelta(its, entry, item_name) ==
    IF HasItem(its, item_name)
    THEN SetStock(its, item_name,
                  ItemOf(its, item_name).stock
                     - (DictGet(entry, "new_stock", 0) - DictGet(entry, "old_stock", 0)))
    ELSE its

\* the items dict after the reversal of an adjustment entry
ReverseAdjustment(its, entry, item_name) ==
    IF HasItem(its, item_name)
    THEN SetStock(its, item_name, DictGet(entry, "old_stock", 0))
    ELSE its

\* ReversePriceUpdate with a fault: the price of the entry that is restored is
\* new_price
ReversePriceUpdateToNew(its, entry, item_name) ==
    IF HasItem(its, item_name)
    THEN SetPrice(its, item_name, DictGet(entry, "new_price", 0))
    ELSE its

\* the items dict after the reversal of a price_update entry
ReversePriceUpdate(its, entry, item_name) ==
    IF HasItem(its, item_name)
    THEN SetPrice(its, item_name, DictGet(entry, "old_price", 0))
    ELSE its

\* Reverse with a fault: a purchase entry is reversed as an adjustment entry is
ReverseAlsoPurchase(its, entry, item_name) ==
    LET transaction_type == DictGet(entry, "transaction_type", None)
    IN  IF transaction_type = "sale" THEN ReverseSale(its, entry, item_name)
        ELSE IF transaction_type \in {"adjustment", "purchase"}
             THEN ReverseAdjustment(its, entry, item_name)
        ELSE IF transaction_type = "price_update"
             THEN ReversePriceUpdate(its, entry, item_name)
        ELSE its

\* the reversal delete_ledger_entry applies, by transaction type
Reverse(its, entry, item_name) ==
    LET transaction_type == DictGet(entry, "transaction_type", None)
    IN  IF transaction_type = "sale" THEN ReverseSale(its, entry, item_name)
        ELSE IF transaction_type = "adjustment"
             THEN ReverseAdjustment(its, entry, item_name)
        ELSE IF transaction_type = "price_update"
             THEN ReversePriceUpdate(its, entry, item_name)
        ELSE its

delete_ledger_entry(timestamp, item_name, reverse_transaction) ==
    LET found == HasEntry(ledger_entries, timestamp, item_name)
        entry_index == EntryIndex(ledger_entries, timestamp, item_name)
        entry_to_delete == ledger_entries[entry_index]
    IN  /\ items' = IF found /\ reverse_transaction
                    THEN Reverse(items, entry_to_delete, item_name)
                    ELSE items
        /\ ledger_entries' = IF found THEN PopAt(ledger_entries, entry_index)
                             ELSE ledger_entries
        /\ disk' = IF found
                   THEN save_items(save_ledger(disk, ledger_entries'), items')
                   ELSE disk
        /\ UNCHANGED <<recently_logged, cash_balance, cash_transactions>>
        /\ Return("delete_ledger_entry",
                  [timestamp |-> timestamp, item_name |-> item_name,
                   reverse_transaction |-> reverse_transaction],
                  found, IF found THEN <<"ledger", "items">> ELSE <<>>)

---------------------------------------------------------------------------
(* Cash operations *)

\* CashEntryDialog.update_description: the default text of each transaction type
Description(tx_type) ==
    IF tx_type = "add" THEN <<"Added cash">>
    ELSE IF tx_type = "withdraw" THEN <<"Withdrew cash">>
    ELSE <<"Set cash balance">>

\* get_transaction_data with a fault: a withdrawal stops at an empty cash box
get_transaction_data_floored(now, current_balance, tx_type, amount) ==
    LET new_balance == IF tx_type = "add" THEN current_balance + amount
                       ELSE IF tx_type = "withdraw"
                            THEN Max(0, current_balance - amount)
                       ELSE amount
    IN  [type |-> tx_type, amount |-> amount, description |-> Description(tx_type),
         new_balance |-> new_balance, value |-> new_balance - current_balance,
         timestamp |-> now]

\* CashEntryDialog.get_transaction_data, for an amount > 0
get_transaction_data(now, current_balance, tx_type, amount) ==
    LET new_balance == IF tx_type = "add" THEN current_balance + amount
                       ELSE IF tx_type = "withdraw" THEN current_balance - amount
                       ELSE amount
        value == IF tx_type = "add" THEN amount
                 ELSE IF tx_type = "withdraw" THEN -amount
                 ELSE new_balance - current_balance
    IN  [type |-> tx_type, amount |-> amount, description |-> Description(tx_type),
         new_balance |-> new_balance, value |-> value, timestamp |-> now]

\* LedgerWidget.show_cash_dialog with the dialog accepted: the dialog is given the
\* widget's copy of the balance, which every cash path keeps equal to the manager's
show_cash_dialog(action_type, amount) ==
    LET valid == ~(amount <= 0)
        tx_data == get_transaction_data(clock, cash_balance, action_type, amount)
    IN  /\ cash_balance' = IF valid THEN BalanceAfter(cash_balance, tx_data)
                           ELSE cash_balance
        /\ cash_transactions' = IF valid THEN TransactionsAfter(cash_transactions, tx_data)
                                ELSE cash_transactions
        /\ disk' = IF valid
                   THEN save_cash_data(disk, cash_balance', cash_transactions')
                   ELSE disk
        /\ UNCHANGED <<items, ledger_entries, recently_logged>>
        /\ Return("show_cash_dialog",
                  [action_type |-> action_type, amount |-> amount], valid,
                  IF valid THEN <<"cash">> ELSE <<>>)

set_cash_balance(balance) ==
    LET old_balance == cash_balance
        transaction_data ==
            [timestamp |-> clock, description |-> <<"Set cash balance">>,
             value |-> balance - old_balance, new_balance |-> balance]
    IN  /\ cash_balance' = BalanceAfter(balance, transaction_data)
        /\ cash_transactions' = TransactionsAfter(cash_transactions, transaction_data)
        /\ disk' = save_cash_data(disk, cash_balance', cash_transactions')
        /\ UNCHANGED <<items, ledger_entries, recently_logged>>
        /\ Return("set_cash_balance", [balance |-> balance], TRUE, <<"cash">>)

\* CashManager.get_cash_balance
get_cash_balance == cash_balance

\* ReverseCash with a fault: the value is added once more
ReverseCashAdding(balance, transaction) == balance + DictGet(transaction, "value", 0)

\* self.cash_balance -= value
ReverseCash(balance, transaction) == balance - DictGet(transaction, "value", 0)

delete_transaction(timestamp, description, reverse_transaction) ==
    LET found == HasEntry(cash_transactions, timestamp, description)
        transaction_index == EntryIndex(cash_transactions, timestamp, description)
        transaction_to_delete == cash_transactions[transaction_index]
    IN  /\ cash_balance' = IF found /\ reverse_transaction
                           THEN ReverseCash(cash_balance, transaction_to_delete)
                           ELSE cash_balance
        /\ cash_transactions' = IF found THEN PopAt(cash_transactions, transaction_index)
                                ELSE cash_transactions
        /\ disk' = IF found
                   THEN save_cash_data(disk, cash_balance', cash_transactions')
                   ELSE disk
        /\ UNCHANGED <<items, ledger_entries, recently_logged>>
        /\ Return("delete_transaction",
                  [timestamp |-> timestamp, description |-> description,
                   reverse_transaction |-> reverse_transaction],
                  found, IF found THEN <<"cash">> ELSE <<>>)

---------------------------------------------------------------------------
(* Recent-match log *)

LogEntry(now, its, ocr_text, matched_item, price, match_score) ==
    [timestamp |-> now, ocr_text |-> ocr_text, matched_item |-> matched_item,
     price |-> price, match_score |-> match_score,
     stock |-> IF matched_item # None /\ matched_item[1] # ""
                  /\ HasItem(its, matched_item[1])
               THEN ItemOf(its, matched_item[1]).stock
               ELSE 0]

\* CapLog with a fault: the cap keeps the other end of the list, logs[-100:]
CapLogKeepingTail(logs) ==
    IF Len(logs) > LogCap THEN SubSeq(logs, Len(logs) - LogCap + 1, Len(logs)) ELSE logs

\* if len(self.recently_logged) > 100: self.recently_logged = self.recently_logged[:100]
CapLog(logs) == IF Len(logs) > LogCap THEN Prefix(logs, LogCap) ELSE logs

add_to_log(ocr_text, matched_item, price, match_score) ==
    /\ recently_logged' =
          CapLog(InsertFront(recently_logged,
              LogEntry(clock, items, ocr_text, matched_item, price, match_score)))
    /\ disk' = save_logs(disk, recently_logged')
    /\ UNCHANGED <<items, ledger_entries, cash_balance, cash_transactions>>
    /\ Return("add_to_log",
              [ocr_text |-> ocr_text, matched_item |-> matched_item,
               price |-> price, match_score |-> match_score], TRUE, <<"logs">>)

\* log_index counts from 0
correct_log_entry(log_index, new_matched_item, new_price) ==
    LET valid == 0 <= log_index /\ log_index < Len(recently_logged)
        e == recently_logged[log_index + 1]
        e1 == IF new_matched_item # None
              THEN [e EXCEPT !.matched_item = new_matched_item] ELSE e
        e2 == IF new_price # None THEN [e1 EXCEPT !.price = new_price] ELSE e1
    IN  /\ recently_logged' = IF valid
                              THEN [recently_logged EXCEPT ![log_index + 1] = e2]
                              ELSE recently_logged
        /\ disk' = IF valid THEN save_logs(disk, recently_logged') ELSE disk
        /\ UNCHANGED <<items, ledger_entries, cash_balance, cash_transactions>>
        /\ Return("correct_log_entry",
                  [log_index |-> log_index, new_matched_item |-> new_matched_item,
                   new_price |-> new_price], valid,
                  IF valid THEN <<"logs">> ELSE <<>>)

clear_logs ==
    /\ recently_logged' = <<>>
    /\ UNCHANGED <<items, ledger_entries, cash_balance, cash_transactions, disk>>
    /\ Return("clear_logs", <<>>, TRUE, <<>>)

---------------------------------------------------------------------------
(* Specification *)

\* (timestamp, item_name) of the rows a ledger view shows or showed before the last call
Keys(l) == {<<DictGet(l[i], "timestamp", 0), DictGet(l[i], "item_name", <<>>)>> :
            i \in 1..Len(l)}

\* What earlier sessions left in the files.  Fresh: nothing.  Stocked: two add_item
\* calls.  Traded: add_item("A", 2, 0), a recognition of "A", cash added,
\* adjust_stock("A", 3), mark_as_sold("A", 1), the last four 4, 3, 2 and 1 before
\* the session starts.
Fresh ==
    [items |-> <<>>, ledger |-> <<>>, logs |-> <<>>, cash_balance |-> 0,
     transactions |-> <<>>]

Stocked ==
    [Fresh EXCEPT !.items = SetItem(SetItem(<<>>, "A", [price |-> 2, stock |-> 3]),
                                    "B", [price |-> 3, stock |-> 0])]

Traded ==
    LET added == get_transaction_data(SessionStart - 3, 0, "add", 7)
    IN  [items |-> SetItem(<<>>, "A", [price |-> 2, stock |-> 2]),
         ledger |-> add_to_ledger(
                      add_to_ledger(<<>>, SessionStart - 2, "A", 0, 3, "adjustment", 2,
                                    None, None, None),
                      SessionStart - 1, "A", 3, 2, "sale", 2, Some(1),
                      Some(SaleValue(2, 1)), Some(2)),
         logs |-> CapLog(InsertFront(<<>>,
                      LogEntry(SessionStart - 4,
                               SetItem(<<>>, "A", [price |-> 2, stock |-> 0]),
                               "A", Some("A"), Some(2), Some(100)))),
         cash_balance |-> BalanceAfter(0, added),
         transactions |-> TransactionsAfter(<<>>, added)]

SavedStates == {Fresh, Stocked, Traded}

\* __init__ of ItemDatabase and CashManager: the stores are what the files hold
Loaded(saved) ==
    /\ items = saved.items
    /\ ledger_entries = saved.ledger
    /\ recently_logged = saved.logs
    /\ cash_balance = saved.cash_balance
    /\ cash_transactions = saved.transactions
    /\ disk = saved
    /\ clock = SessionStart
    /\ last = [op |-> "init", args |-> <<>>, result |-> TRUE, time |-> SessionStart - 1,
               writes |-> <<>>]
    /\ pre = Snapshot
    /\ start = Snapshot

Init == \E saved \in SavedStates : Loaded(saved)

Next ==
    \/ \E n \in Names \cup {""}, p \in PriceArgs, s \in StockArgs :
          clock < SessionStart + MaxOps /\ add_item(n, p, s)
    \/ \E n \in Names, p \in PriceArgs, nn \in {None} \cup {Some(m) : m \in Names},
          s \in {None, Some(1)} :
          clock < SessionStart + MaxOps /\ update_item(n, p, nn, s)
    \/ \E n \in Names : clock < SessionStart + MaxOps /\ delete_item(n)
    \/ \E n \in Names, p \in PriceArgs : clock < SessionStart + MaxOps /\ update_price(n, p)
    \/ \E n \in Names, s \in StockArgs, f \in FundingArgs :
          clock < SessionStart + MaxOps /\ update_stock(n, s, f[1], f[2], f[3])
    \/ \E n \in Names, a \in DeltaArgs, f \in FundingArgs :
          clock < SessionStart + MaxOps /\ adjust_stock(n, a, f[1], f[2], f[3])
    \/ \E n \in Names, q \in QuantityArgs, p \in SellingPriceArgs :
          clock < SessionStart + MaxOps /\ mark_as_sold(n, q, p)
    \/ \E k \in Keys(ledger_entries) \cup Keys(pre.ledger_entries), r \in BOOLEAN :
          clock < SessionStart + MaxOps /\ delete_ledger_entry(k[1], k[2], r)
    \/ \E t \in {"add", "withdraw", "set"}, a \in AmountArgs :
          clock < SessionStart + MaxOps /\ show_cash_dialog(t, a)
    \/ \E b \in AmountArgs : clock < SessionStart + MaxOps /\ set_cash_balance(b)
    \/ \E k \in Keys(cash_transactions) \cup Keys(pre.cash_transactions),
          r \in BOOLEAN :
          clock < SessionStart + MaxOps /\ delete_transaction(k[1], k[2], r)

Spec == Init /\ [][Next]_vars

---------------------------------------------------------------------------
(* A session that starts with the ledger at or one below its cap *)

\* n entries left by adjust_stock("A", 1) and adjust_stock("A", -1) in turn, the
\* newest (time SessionStart - 1) at the head
History(n) ==
    [i \in 1..n |->
        LedgerEntry(SessionStart - i, "A", IF i % 2 = 1 THEN 4 ELSE 3, IF i % 2 = 1 THEN 3 ELSE 4,
                    "adjustment", 2, None, None, None)]

LongLedger(n) ==
    [Fresh EXCEPT !.items = SetItem(<<>>, "A", [price |-> 2, stock |-> 3]),
                  !.ledger = History(n)]

InitCap == \E n \in {LedgerCap - 1, LedgerCap} : Loaded(LongLedger(n))

\* the rows at the two ends of a ledger view
EndKeys(l) == IF l = <<>> THEN {} ELSE Keys(<<l[1], l[Len(l)]>>)

NextCap ==
    \/ \E p \in PriceArgs : clock < SessionStart + MaxCapOps /\ update_price("A", p)
    \/ \E s \in StockArgs : clock < SessionStart + MaxCapOps /\ update_stock("A", s, "adjustment", FALSE, FALSE)
    \/ \E a \in DeltaArgs : clock < SessionStart + MaxCapOps /\ adjust_stock("A", a, "adjustment", FALSE, FALSE)
    \/ \E q \in QuantityArgs : clock < SessionStart + MaxCapOps /\ mark_as_sold("A", q, None)
    \/ \E k \in EndKeys(ledger_entries) \cup EndKeys(pre.ledger_entries) :
          clock < SessionStart + MaxCapOps /\ delete_ledger_entry(k[1], k[2], TRUE)

SpecCap == InitCap /\ [][NextCap]_vars

---------------------------------------------------------------------------
(* A session of recognitions, starting with the recent-match log empty or one
   below its cap *)

\* n entries left by add_to_log("A", "A", 2, 100), the newest at the head
Recognised(n) ==
    [i \in 1..n |-> LogEntry(SessionStart - i, Stocked.items, "A", Some("A"), Some(2), Some(100))]

InitLog == \E n \in {0, LogCap - 1} : Loaded([Stocked EXCEPT !.logs = Recognised(n)])

\* (matched_item, price, match_score) of a recognition: unmatched, or matched
MatchArgs == {<<None, None, None>>, <<Some("A"), Some(2), Some(100)>>,
              <<Some("B"), Some(3), Some(80)>>}

NextLog ==
    \/ \E t \in {"A", "8"}, m \in MatchArgs :
          clock < SessionStart + MaxLogOps /\ add_to_log(t, m[1], m[2], m[3])
    \/ \E i \in {0, LogCap}, m \in {None, Some("B")}, p \in {None, Some(3)} :
          clock < SessionStart + MaxLogOps /\ correct_log_entry(i, m, p)
    \/ clock < SessionStart + MaxLogOps /\ clear_logs

SpecLog == InitLog /\ [][NextLog]_vars

---------------------------------------------------------------------------
(* A session of catalog entries and matches, with names that differ by case only *)

\* number of calls in a run of entries and matches
MaxMatchOps == 4

\* the names entered, the texts matched, the thresholds and the scores of the library
MatchNames == {"A", "a", "B"}
MatchTexts == {"", "A", "b", "C"}
MinScoreArgs == {70, 101}
ScoreArgs == {40, 100}

InitMatch == Loaded(Fresh)

NextMatch ==
    \/ \E n \in MatchNames, p \in PriceArgs :
          clock < SessionStart + MaxMatchOps /\ add_item(n, p, 0)
    \/ \E t \in MatchTexts, m \in MinScoreArgs, sc \in [MatchNames -> ScoreArgs] :
          clock < SessionStart + MaxMatchOps /\ call_match_item(t, m, sc)

SpecMatch == InitMatch /\ [][NextMatch]_vars
---------------------------------------------------------------------------
(* A session of cash entries, cash-funded purchases and reversals that starts
   with an empty cash store *)

\* number of calls in a run on the cash store
MaxCashOps == 3

InitCash == Loaded(Stocked)

NextCash ==
    \/ \E t \in {"add", "withdraw", "set"}, a \in AmountArgs :
          clock < SessionStart + MaxCashOps /\ show_cash_dialog(t, a)
    \/ \E b \in AmountArgs : clock < SessionStart + MaxCashOps /\ set_cash_balance(b)
    \/ \E n \in Names, st \in StockArgs :
          clock < SessionStart + MaxCashOps /\ update_stock(n, st, "purchase", TRUE, TRUE)
    \/ \E n \in Names, a \in DeltaArgs :
          clock < SessionStart + MaxCashOps /\ adjust_stock(n, a, "purchase", TRUE, TRUE)
    \/ \E k \in Keys(cash_transactions) \cup Keys(pre.cash_transactions) :
          clock < SessionStart + MaxCashOps /\ delete_transaction(k[1], k[2], TRUE)

SpecCash == InitCash /\ [][NextCash]_vars

---------------------------------------------------------------------------
(* Properties *)

\* the stores are as they were before the last call
StoresUntouched ==
    /\ items = pre.items
    /\ ledger_entries = pre.ledger_entries
    /\ cash_balance = pre.cash_balance
    /\ cash_transactions = pre.cash_transactions

\* the last call recorded exactly one ledger entry, at the head of the list
RecordedOne ==
    /\ ledger_entries # <<>>
    /\ Len(ledger_entries) =
          (IF Len(pre.ledger_entries) < LedgerCap THEN Len(pre.ledger_entries) + 1
           ELSE LedgerCap)
    /\ \A i \in 2..Len(ledger_entries) : ledger_entries[i] = pre.ledger_entries[i - 1]
    /\ ledger_entries[1].timestamp = last.time

\* the last call was update_stock or adjust_stock as a cash-funded purchase of an
\* item of the catalog
FundedPurchase ==
    /\ last.op \in {"update_stock", "adjust_stock"}
    /\ last.args.transaction_type = "purchase"
    /\ last.args.use_cash
    /\ last.args.cash_manager
    /\ HasItem(pre.items, last.args.item_name)

\* the stock that call asked for
AskedStock ==
    IF last.op = "update_stock" THEN last.args.stock
    ELSE Max(0, ItemOf(pre.items, last.args.item_name).stock + last.args.adjustment)

\* its purchase value: the stock increase times the item's price
AskedValue ==
    (AskedStock - ItemOf(pre.items, last.args.item_name).stock)
        * ItemOf(pre.items, last.args.item_name).price

\* C1: a cash-funded purchase whose value exceeds the cash balance returns failure
\* and leaves the item's stock, the ledger, the cash balance and the cash
\* transactions as they were before the call.
C1_RefusedPurchaseChangesNothing ==
    (FundedPurchase /\ AskedValue > pre.cash_balance)
        => (~last.result /\ StoresUntouched)

\* what C2 says of a successful cash-funded update_stock: the stock is the new
\* stock, the balance is debited by the purchase value, one cash transaction of
\* minus that value is added, one purchase entry old -> new is recorded, the cash
\* file is written before the items file and both files hold the new state
C2_Outcome ==
    LET n == last.args.item_name
        old == ItemOf(pre.items, n)
    IN  /\ last.result
        /\ HasItem(items, n) /\ ItemOf(items, n).stock = last.args.stock
        /\ cash_balance = pre.cash_balance - AskedValue
        /\ Len(cash_transactions) = Len(pre.cash_transactions) + 1
        /\ SubSeq(cash_transactions, 1, Len(pre.cash_transactions))
              = pre.cash_transactions
        /\ cash_transactions[Len(cash_transactions)].value = -AskedValue
        /\ cash_transactions[Len(cash_transactions)].transaction_type = "cash"
        /\ RecordedOne
        /\ ledger_entries[1].transaction_type = "purchase"
        /\ ledger_entries[1].item_name = n
        /\ ledger_entries[1].old_stock = old.stock
        /\ ledger_entries[1].new_stock = last.args.stock
        /\ \E i, j \in 1..Len(last.writes) :
              i < j /\ last.writes[i] = "cash" /\ last.writes[j] = "items"
        /\ disk.items = items
        /\ disk.cash_balance = cash_balance
        /\ disk.transactions = cash_transactions

\* C2 as stated: every cash-funded update_stock with sufficient cash has that outcome.
C2_EveryFundedUpdate ==
    (FundedPurchase /\ last.op = "update_stock" /\ pre.cash_balance >= AskedValue)
        => C2_Outcome

\* C2, amended: a cash-funded update_stock with sufficient cash whose new stock
\* differs from the current stock debits the cash first and then commits the stock,
\* and on return both stores are updated: stock = new_stock, balance = old balance
\* - (new_stock - old_stock) * price, one cash transaction of that negated value and
\* one purchase ledger entry old_stock -> new_stock added.
C2_FundedUpdateDebitsThenCommits ==
    (/\ FundedPurchase /\ last.op = "update_stock"
     /\ pre.cash_balance >= AskedValue
     /\ last.args.stock # ItemOf(pre.items, last.args.item_name).stock)
        => C2_Outcome

C2_Witness ==
    /\ FundedPurchase /\ last.op = "update_stock"
    /\ last.args.stock > ItemOf(pre.items, last.args.item_name).stock
    /\ pre.cash_balance >= AskedValue
    /\ last.result
    /\ cash_balance < pre.cash_balance

\* C3: every catalog item has stock >= 0 in every reachable state.
C3_StockNeverNegative == \A i \in 1..Len(items) : items[i].stock >= 0

\* C4: mark_as_sold(name, q, p) on an existing item with 0 < q <= stock returns
\* success, sets the stock to stock - q and records one sale entry with quantity q,
\* price the catalog price, selling_price p (the catalog price when p is not given)
\* and value p * q; with q <= 0 or q > stock it returns failure and leaves the stock
\* and the ledger unchanged.
C4_MarkAsSold ==
    (last.op = "mark_as_sold" /\ HasItem(pre.items, last.args.item_name)) =>
        LET n == last.args.item_name
            q == last.args.quantity
            old == ItemOf(pre.items, n)
            p == IF last.args.selling_price = None THEN old.price
                 ELSE last.args.selling_price[1]
        IN  IF 0 < q /\ q <= old.stock
            THEN /\ last.result
                 /\ HasItem(items, n) /\ ItemOf(items, n).stock = old.stock - q
                 /\ RecordedOne
                 /\ ledger_entries[1].transaction_type = "sale"
                 /\ ledger_entries[1].item_name = n
                 /\ ledger_entries[1].quantity = q
                 /\ ledger_entries[1].price = old.price
                 /\ ledger_entries[1].selling_price = Some(p)
                 /\ ledger_entries[1].value = p * q
            ELSE /\ ~last.result
                 /\ items = pre.items
                 /\ ledger_entries = pre.ledger_entries

C4_Witness ==
    /\ last.op = "mark_as_sold" /\ last.result
    /\ last.args.selling_price # None
    /\ HasItem(pre.items, last.args.item_name)
    /\ last.args.selling_price[1] # ItemOf(pre.items, last.args.item_name).price
    /\ ItemOf(items, last.args.item_name).stock
          < ItemOf(pre.items, last.args.item_name).stock

\* C5: after adjust_stock(name, delta) on an existing item the stock is
\* max(0, stock + delta), never negative, and the ledger entry the call records
\* has new_stock equal to that clamped value.
C5_AdjustStockClamps ==
    (last.op = "adjust_stock" /\ HasItem(pre.items, last.args.item_name)) =>
        LET n == last.args.item_name
            old == ItemOf(pre.items, n).stock
            sum == old + last.args.adjustment
            clamped == IF sum < 0 THEN 0 ELSE sum
        IN  /\ HasItem(items, n)
            /\ ItemOf(items, n).stock = clamped
            /\ ItemOf(items, n).stock >= 0
            /\ ledger_entries # pre.ledger_entries =>
                  /\ RecordedOne
                  /\ ledger_entries[1].item_name = n
                  /\ ledger_entries[1].old_stock = old
                  /\ ledger_entries[1].new_stock = clamped
            /\ (last.args.transaction_type = "adjustment" /\ clamped # old)
                  => ledger_entries # pre.ledger_entries

C5_Witness ==
    /\ last.op = "adjust_stock" /\ HasItem(pre.items, last.args.item_name)
    /\ ItemOf(pre.items, last.args.item_name).stock > 0
    /\ ItemOf(pre.items, last.args.item_name).stock + last.args.adjustment < 0
    /\ ItemOf(items, last.args.item_name).stock = 0
    /\ ledger_entries # pre.ledger_entries
    /\ ledger_entries[1].new_stock = 0

\* C6: add_item(name, price, stock) with a non-empty name, followed at once by
\* get_item(name), returns a record with that price and stock, whether or not the
\* name was in the catalog before, and the catalog holds exactly one item of that name.
C6_AddThenGet ==
    (last.op = "add_item" /\ last.args.item_name # "") =>
        /\ last.result
        /\ get_item(items, last.args.item_name) # None
        /\ get_item(items, last.args.item_name)[1].price = last.args.price
        /\ get_item(items, last.args.item_name)[1].stock = last.args.stock
        /\ Cardinality({i \in 1..Len(items) : items[i].name = last.args.item_name}) = 1
        /\ Len(items) = Len(pre.items)
              + (IF HasItem(pre.items, last.args.item_name) THEN 0 ELSE 1)

C6_Witness ==
    /\ last.op = "add_item"
    /\ HasItem(pre.items, last.args.item_name)
    /\ ItemOf(pre.items, last.args.item_name).price # last.args.price
    /\ ItemOf(pre.items, last.args.item_name).stock # last.args.stock
    /\ get_item(items, last.args.item_name)[1].stock = last.args.stock

\* C7: update_item, delete_item, update_price, update_stock, adjust_stock and
\* mark_as_sold called with a name that is not in the catalog return failure,
\* create no item and leave the catalog, the ledger and the cash store unchanged.
C7_AbsentNameRefused ==
    (/\ last.op \in {"update_item", "delete_item", "update_price", "update_stock",
                     "adjust_stock", "mark_as_sold"}
     /\ ~HasItem(pre.items, last.args.item_name))
        => /\ ~last.result
           /\ ~HasItem(items, last.args.item_name)
           /\ StoresUntouched
           /\ last.writes = <<>>

C7_Witness ==
    /\ last.op = "adjust_stock"
    /\ ~HasItem(pre.items, last.args.item_name)
    /\ pre.items # <<>>
    /\ last.args.adjustment > 0
    /\ ~last.result

\* the entries of l, as a set
Entries(l) == {l[i] : i \in 1..Len(l)}

\* C8: the item ledger never holds more than 1000 entries, and when a recording
\* call (update_stock, adjust_stock, mark_as_sold, update_price) pushes an entry
\* out, that entry is the oldest one.
C8_LedgerCapped ==
    /\ Len(ledger_entries) <= LedgerCap
    /\ (/\ last.op \in {"update_stock", "adjust_stock", "mark_as_sold", "update_price"}
        /\ ledger_entries # pre.ledger_entries
        /\ Len(ledger_entries) <= Len(pre.ledger_entries))
          => \A i \in 1..Len(pre.ledger_entries) :
                pre.ledger_entries[i] \notin Entries(ledger_entries)
                   => \A j \in 1..Len(pre.ledger_entries) :
                         pre.ledger_entries[j].timestamp
                            >= pre.ledger_entries[i].timestamp

\* C9: the recent-match log holds at most 100 entries, newest first, and
\* add_to_log puts its entry at the head, dropping the oldest (the last) entry
\* when the log was full.
C9_LogCapped ==
    /\ Len(recently_logged) <= LogCap
    /\ \A i \in 1..(Len(recently_logged) - 1) :
          recently_logged[i].timestamp > recently_logged[i + 1].timestamp
    /\ last.op = "add_to_log" =>
          /\ recently_logged # <<>>
          /\ recently_logged[1].timestamp = last.time
          /\ recently_logged[1].ocr_text = last.args.ocr_text
          /\ recently_logged[1].matched_item = last.args.matched_item
          /\ Len(recently_logged) =
                (IF Len(pre.recently_logged) < LogCap
                 THEN Len(pre.recently_logged) + 1 ELSE LogCap)
          /\ \A i \in 2..Len(recently_logged) :
                recently_logged[i] = pre.recently_logged[i - 1]

C9_Witness ==
    /\ last.op = "add_to_log"
    /\ Len(pre.recently_logged) = LogCap
    /\ Len(recently_logged) = LogCap
    /\ pre.recently_logged[LogCap] \notin Entries(recently_logged)

\* C10: delete_ledger_entry with reversal on a sale entry returns success and sets
\* the item's stock to its value just before the call (0 for an item no longer in
\* the catalog) plus the entry's quantity; the entry is gone afterwards, and a
\* delete_ledger_entry call whose (timestamp, item_name) matches no entry, as a
\* second call with the same arguments does, returns failure and changes neither
\* the catalog nor the ledger.
C10_SaleReversal ==
    last.op = "delete_ledger_entry" =>
        LET n == last.args.item_name
            t == last.args.timestamp
            hits == {i \in 1..Len(pre.ledger_entries) :
                        /\ pre.ledger_entries[i].timestamp = t
                        /\ pre.ledger_entries[i].item_name = n}
            before == IF HasItem(pre.items, n) THEN ItemOf(pre.items, n).stock ELSE 0
        IN  IF hits = {}
            THEN /\ ~last.result
                 /\ items = pre.items
                 /\ ledger_entries = pre.ledger_entries
            ELSE /\ last.result
                 /\ Len(ledger_entries) = Len(pre.ledger_entries) - 1
                 /\ \A i \in 1..Len(ledger_entries) :
                       ~(ledger_entries[i].timestamp = t
                          /\ ledger_entries[i].item_name = n)
                 /\ \A i \in hits :
                       (/\ last.args.reverse_transaction
                        /\ pre.ledger_entries[i].transaction_type = "sale")
                          => /\ HasItem(items, n)
                             /\ ItemOf(items, n).stock
                                   = before + pre.ledger_entries[i].quantity

C10_Witness ==
    /\ last.op = "delete_ledger_entry" /\ last.result
    /\ last.args.reverse_transaction
    /\ HasItem(pre.items, last.args.item_name)
    /\ \E i \in 1..Len(pre.ledger_entries) :
          /\ pre.ledger_entries[i].timestamp = last.args.timestamp
          /\ pre.ledger_entries[i].item_name = last.args.item_name
          /\ pre.ledger_entries[i].transaction_type = "sale"
          /\ pre.ledger_entries[i].new_stock
                # ItemOf(pre.items, last.args.item_name).stock
          /\ ItemOf(items, last.args.item_name).stock
                = ItemOf(pre.items, last.args.item_name).stock
                     + pre.ledger_entries[i].quantity

\* the last call added one cash transaction, of the given value, at the end of
\* the list and left the balance at new_balance
CashApplied(new_balance, value) ==
    /\ cash_balance = new_balance
    /\ get_cash_balance = new_balance
    /\ Len(cash_transactions) = Len(pre.cash_transactions) + 1
    /\ SubSeq(cash_transactions, 1, Len(pre.cash_transactions)) = pre.cash_transactions
    /\ cash_transactions[Len(cash_transactions)].transaction_type = "cash"
    /\ cash_transactions[Len(cash_transactions)].timestamp = last.time
    /\ cash_transactions[Len(cash_transactions)].value = value

\* the balance a cash entry of the given type and amount asks for
AskedBalance(tx_type, amount) ==
    IF tx_type = "add" THEN pre.cash_balance + amount
    ELSE IF tx_type = "withdraw" THEN pre.cash_balance - amount
    ELSE amount

\* C11 as stated: every cash entry (add, withdraw, set) succeeds, also a withdrawal
\* above the balance: the balance is balance + amount, balance - amount or the
\* amount, get_cash_balance() returns it and the transaction recorded has the
\* value new_balance - old_balance.
C11_EveryCashEntryApplies ==
    /\ last.op = "show_cash_dialog" =>
          /\ last.result
          /\ CashApplied(AskedBalance(last.args.action_type, last.args.amount),
                         AskedBalance(last.args.action_type, last.args.amount)
                            - pre.cash_balance)
    /\ last.op = "set_cash_balance" =>
          CashApplied(last.args.balance, last.args.balance - pre.cash_balance)

\* C11, amended: a cash entry with an amount above zero succeeds, also a
\* withdrawal above the balance, which leaves the balance negative: the balance is
\* balance + amount, balance - amount or the amount, get_cash_balance() returns it
\* and the transaction recorded has the value new_balance - old_balance; an entry
\* with the amount 0 is turned down and changes nothing; set_cash_balance(b) sets
\* the balance to b for every b.
C11_PositiveCashEntryApplies ==
    /\ (last.op = "show_cash_dialog" /\ last.args.amount > 0) =>
          /\ last.result
          /\ CashApplied(AskedBalance(last.args.action_type, last.args.amount),
                         AskedBalance(last.args.action_type, last.args.amount)
                            - pre.cash_balance)
    /\ (last.op = "show_cash_dialog" /\ last.args.amount <= 0) =>
          /\ ~last.result
          /\ cash_balance = pre.cash_balance
          /\ cash_transactions = pre.cash_transactions
    /\ last.op = "set_cash_balance" =>
          CashApplied(last.args.balance, last.args.balance - pre.cash_balance)

C11_Witness ==
    /\ last.op = "show_cash_dialog" /\ last.args.action_type = "withdraw"
    /\ pre.cash_balance > 0
    /\ last.args.amount > pre.cash_balance
    /\ last.result
    /\ get_cash_balance = pre.cash_balance - last.args.amount
    /\ get_cash_balance < 0

\* C12: match_item(text, min_score) returns an item whose name equals the text up
\* to case whenever the catalog holds one, with match_score 100, whatever the
\* scores of the other items; of several such names it returns the one entered
\* first, with that item's price and stock.
C12_ExactMatchWins ==
    (/\ last.op = "match_item" /\ last.args.text # ""
     /\ \E i \in 1..Len(pre.items) : lower(pre.items[i].name) = lower(last.args.text))
        => /\ last.result # None
           /\ lower(last.result[1].name) = lower(last.args.text)
           /\ last.result[1].match_score = 100
           /\ \E i \in 1..Len(pre.items) :
                 /\ pre.items[i].name = last.result[1].name
                 /\ pre.items[i].price = last.result[1].price
                 /\ pre.items[i].stock = last.result[1].stock
                 /\ \A j \in 1..Len(pre.items) :
                       lower(pre.items[j].name) = lower(last.args.text) => i <= j

C12_Witness ==
    /\ last.op = "match_item" /\ last.result # None
    /\ last.result[1].name # last.args.text
    /\ lower(last.result[1].name) = lower(last.args.text)
    /\ \E j \in 1..Len(items) : items[j].name = last.args.text
    /\ \E j \in 1..Len(items) :
          /\ ~SameIgnoringCase(items[j].name, last.args.text)
          /\ last.args.scores[items[j].name] = 100

\* C13: match_item(text, min_score = 101) returns nothing, for every text and every
\* catalog, also for a text that equals a name of the catalog.
C13_NothingAbove100 ==
    (last.op = "match_item" /\ last.args.min_score = 101) => last.result = None

\* C14: after every public mutator of the catalog, the ledger, the recent log or
\* the cash store has returned, with success or failure, each store in memory
\* equals what was last written to its file.
C14_MemoryEqualsDisk ==
    /\ items = disk.items
    /\ ledger_entries = disk.ledger
    /\ recently_logged = disk.logs
    /\ cash_balance = disk.cash_balance
    /\ cash_transactions = disk.transactions

\* C15: update_item(name, price, new_name) on an existing item, with a new_name
\* that is not empty and differs from name, moves the record: get_item(name)
\* returns nothing, get_item(new_name) returns a record with the given price and
\* the old stock (the given stock when one is given), and the ledger entries are
\* as they were, old name included.
C15_RenameMoves ==
    (/\ last.op = "update_item" /\ HasItem(pre.items, last.args.item_name)
     /\ last.args.new_name # None /\ last.args.new_name[1] # ""
     /\ last.args.new_name[1] # last.args.item_name)
        => LET old == ItemOf(pre.items, last.args.item_name)
               moved == get_item(items, last.args.new_name[1])
           IN  /\ last.result
               /\ get_item(items, last.args.item_name) = None
               /\ moved # None
               /\ moved[1].price = last.args.price
               /\ moved[1].stock = (IF last.args.stock = None THEN old.stock
                                    ELSE last.args.stock[1])
               /\ ledger_entries = pre.ledger_entries

C15_Witness ==
    /\ last.op = "update_item" /\ last.result
    /\ last.args.new_name # None /\ last.args.new_name[1] # last.args.item_name
    /\ last.args.stock = None
    /\ ~HasItem(items, last.args.item_name)
    /\ HasItem(items, last.args.new_name[1])
    /\ ItemOf(items, last.args.new_name[1]).stock > 0
    /\ \E i \in 1..Len(ledger_entries) :
          ledger_entries[i].item_name = last.args.item_name

\* C16: delete_item(name) on an existing item removes that record of the catalog and
\* no other, and leaves the ledger, the recent log and the cash store as they
\* were, so the ledger entries that name the item stay.
C16_DeleteItemOnly ==
    (last.op = "delete_item" /\ HasItem(pre.items, last.args.item_name))
        => /\ last.result
           /\ ~HasItem(items, last.args.item_name)
           /\ Len(items) = Len(pre.items) - 1
           /\ \A i \in 1..Len(pre.items) :
                 pre.items[i].name # last.args.item_name
                    => pre.items[i] \in Entries(items)
           /\ ledger_entries = pre.ledger_entries
           /\ recently_logged = pre.recently_logged
           /\ cash_balance = pre.cash_balance
           /\ cash_transactions = pre.cash_transactions

C16_Witness ==
    /\ last.op = "delete_item" /\ last.result
    /\ ~HasItem(items, last.args.item_name)
    /\ \E i \in 1..Len(ledger_entries) :
          ledger_entries[i].item_name = last.args.item_name
    /\ \E i \in 1..Len(recently_logged) :
          recently_logged[i].matched_item = Some(last.args.item_name)

\* C17: update_price(name, new_price) on an existing item sets the price to
\* new_price, leaves the stock, and records exactly one price_update entry, whose
\* old_price is the price before the call and whose new_price is the price after.
C17_UpdatePriceRecords ==
    (last.op = "update_price" /\ HasItem(pre.items, last.args.item_name))
        => LET n == last.args.item_name
               old == ItemOf(pre.items, n)
           IN  /\ last.result
               /\ HasItem(items, n)
               /\ ItemOf(items, n).price = last.args.new_price
               /\ ItemOf(items, n).stock = old.stock
               /\ \E i \in 1..Len(ledger_entries) :
                     /\ PopAt(ledger_entries, i) = pre.ledger_entries
                     /\ ledger_entries[i].transaction_type = "price_update"
                     /\ ledger_entries[i].item_name = n
                     /\ ledger_entries[i].old_price = old.price
                     /\ ledger_entries[i].new_price = ItemOf(items, n).price

C17_Witness ==
    /\ last.op = "update_price" /\ last.result
    /\ HasItem(pre.items, last.args.item_name)
    /\ ItemOf(pre.items, last.args.item_name).price # last.args.new_price
    /\ ItemOf(items, last.args.item_name).price = last.args.new_price
    /\ Len(ledger_entries) = Len(pre.ledger_entries) + 1

\* the ledger holds a sale entry of the item
EverSold(item_name) ==
    \E j \in 1..Len(ledger_entries) :
        /\ ledger_entries[j].transaction_type = "sale"
        /\ ledger_entries[j].item_name = item_name

\* C18: for every item of the catalog, calculate_price_adjustment reports
\* recommended = true, with the reason "Never been sold", exactly when the stock
\* is above 0 and the ledger holds no sale entry of the item's name; an item
\* whose only sale entry has been deleted is recommended again.
C18_RecommendedIffNeverSold ==
    \A i \in 1..Len(items) :
        LET view == calculate_price_adjustment(items, ledger_entries, clock,
                                               items[i].name)
        IN  /\ view.recommended <=> (items[i].stock > 0 /\ ~EverSold(items[i].name))
            /\ view.recommended => view.reason = "Never been sold"

C18_Witness ==
    /\ last.op = "delete_ledger_entry" /\ last.result
    /\ HasItem(pre.items, last.args.item_name)
    /\ ItemOf(pre.items, last.args.item_name).stock > 0
    /\ ~calculate_price_adjustment(pre.items, pre.ledger_entries, last.time,
                                   last.args.item_name).recommended
    /\ HasItem(items, last.args.item_name)
    /\ calculate_price_adjustment(items, ledger_entries, clock,
                                  last.args.item_name).recommended

\* the last call handed a transaction to add_transaction
AppliedCash == Len(cash_transactions) > Len(pre.cash_transactions)

\* the new_balance of that transaction
AppliedBalance ==
    IF last.op = "show_cash_dialog"
    THEN AskedBalance(last.args.action_type, last.args.amount)
    ELSE IF last.op = "set_cash_balance" THEN last.args.balance
    ELSE IF last.op = "update_stock"
         THEN pre.cash_balance
                 - (last.args.stock - ItemOf(pre.items, last.args.item_name).stock)
                      * ItemOf(pre.items, last.args.item_name).price
    ELSE pre.cash_balance
            - last.args.adjustment * ItemOf(pre.items, last.args.item_name).price

\* the last call was a delete_transaction that found its transaction and reversed it
ReversedCash ==
    /\ last.op = "delete_transaction" /\ last.result
    /\ last.args.reverse_transaction

\* the transaction that was the latest before the last call is still the latest
LatestKept ==
    /\ pre.cash_transactions # <<>> /\ cash_transactions # <<>>
    /\ cash_transactions[Len(cash_transactions)]
          = pre.cash_transactions[Len(pre.cash_transactions)]

\* C19 as stated: after any sequence of cash operations (add, withdraw, set,
\* cash-funded purchases, delete_transaction) the balance is the new_balance of
\* the most recent cash transaction applied: a call that applies a transaction
\* leaves the balance at its new_balance, and a call that applies none and keeps
\* the latest transaction, a delete_transaction of an older one too, leaves the
\* balance as it was.
C19_BalanceIsLatestNewBalance ==
    /\ AppliedCash => cash_balance = AppliedBalance
    /\ (~AppliedCash /\ (LatestKept \/ ~ReversedCash))
          => cash_balance = pre.cash_balance

\* C19, amended: after any sequence of cash add, withdraw, set and cash-funded
\* purchases the balance is the new_balance of the most recent cash transaction
\* applied, and a delete_transaction without reversal keeps it; a
\* delete_transaction with reversal leaves the balance at the balance before the
\* call minus the value of the transaction deleted.
C19_BalanceFollowsTransactions ==
    /\ AppliedCash => cash_balance = AppliedBalance
    /\ (~AppliedCash /\ ~ReversedCash) => cash_balance = pre.cash_balance
    /\ ReversedCash =>
          \E i \in 1..Len(pre.cash_transactions) :
              /\ pre.cash_transactions[i].timestamp = last.args.timestamp
              /\ pre.cash_transactions[i].item_name = last.args.description
              /\ PopAt(pre.cash_transactions, i) = cash_transactions
              /\ cash_balance = pre.cash_balance - pre.cash_transactions[i].value

C19_Witness ==
    /\ last.op \in {"update_stock", "adjust_stock"} /\ AppliedCash
    /\ Len(cash_transactions) >= 2
    /\ cash_balance = AppliedBalance
    /\ cash_balance < pre.cash_balance
    /\ cash_balance = pre.cash_balance + cash_transactions[Len(cash_transactions)].value

\* C20: the item ledger is newest first in every reachable state: the timestamps
\* do not increase along the list, the entry that update_stock, adjust_stock,
\* mark_as_sold or update_price records is at the head, and
\* get_ledger_entries(limit) returns the newest limit entries.
C20_NewestFirst ==
    /\ \A i \in 1..(Len(ledger_entries) - 1) :
          ledger_entries[i].timestamp >= ledger_entries[i + 1].timestamp
    /\ (/\ last.op \in {"update_stock", "adjust_stock", "mark_as_sold", "update_price"}
        /\ ledger_entries # pre.ledger_entries)
          => ledger_entries[1].timestamp = last.time
    /\ \A limit \in {1, 2} :
          LET newest == get_ledger_entries(ledger_entries, limit, None, None)
          IN  \A i \in 1..Len(newest) : \A j \in 1..Len(ledger_entries) :
                 ledger_entries[j].timestamp > newest[i].timestamp
                    => \E k \in 1..Len(newest) : newest[k] = ledger_entries[j]

\* C21: every ledger entry of the type adjustment, purchase or sale has
\* quantity = |new_stock - old_stock| and, the value of a sale included, a value
\* of quantity times the price used: selling_price when one is given, the catalog
\* price otherwise.
C21_QuantityAndValue ==
    \A i \in 1..Len(ledger_entries) :
        ledger_entries[i].transaction_type \in {"adjustment", "purchase", "sale"} =>
            LET e == ledger_entries[i]
                change == e.new_stock - e.old_stock
                used == IF e.selling_price # None THEN e.selling_price[1] ELSE e.price
            IN  /\ e.quantity = (IF change < 0 THEN -change ELSE change)
                /\ e.value = e.quantity * used

C21_Witness ==
    /\ last.op \in {"update_stock", "adjust_stock"}
    /\ ledger_entries # pre.ledger_entries
    /\ ledger_entries[1].timestamp = last.time
    /\ ledger_entries[1].new_stock < ledger_entries[1].old_stock
    /\ ledger_entries[1].quantity = ledger_entries[1].old_stock - ledger_entries[1].new_stock
    /\ ledger_entries[1].value > 0

\* the last call was a delete_ledger_entry that found an entry
DeletedEntry == last.op = "delete_ledger_entry" /\ last.result

\* where that entry was: the first entry of the timestamp and the name asked for
DeletedAt ==
    CHOOSE i \in 1..Len(pre.ledger_entries) :
        /\ pre.ledger_entries[i].timestamp = last.args.timestamp
        /\ pre.ledger_entries[i].item_name = last.args.item_name
        /\ \A j \in 1..(i - 1) :
              ~(/\ pre.ledger_entries[j].timestamp = last.args.timestamp
                /\ pre.ledger_entries[j].item_name = last.args.item_name)

\* the last call deleted, with reversal, an entry of the given type
Reversed(transaction_type) ==
    /\ DeletedEntry /\ last.args.reverse_transaction
    /\ pre.ledger_entries[DeletedAt].transaction_type = transaction_type

\* every item of the catalog but the named one is as it was before the last call
OthersKept(item_name) ==
    /\ \A i \in 1..Len(pre.items) :
          pre.items[i].name # item_name => pre.items[i] \in Entries(items)
    /\ \A i \in 1..Len(items) :
          items[i].name # item_name => items[i] \in Entries(pre.items)

\* C22: deleting with reversal a sale entry whose item is no longer in the catalog
\* puts the item back under the entry's item_name, with the entry's price as price
\* and the entry's quantity as stock, and removes the entry.
C22_SaleReversalRecreates ==
    (Reversed("sale") /\ ~HasItem(pre.items, last.args.item_name)) =>
        LET e == pre.ledger_entries[DeletedAt]
        IN  /\ HasItem(items, last.args.item_name)
            /\ ItemOf(items, last.args.item_name).price = e.price
            /\ ItemOf(items, last.args.item_name).stock = e.quantity
            /\ Len(items) = Len(pre.items) + 1
            /\ OthersKept(last.args.item_name)
            /\ ledger_entries = PopAt(pre.ledger_entries, DeletedAt)
            /\ e \notin Entries(ledger_entries)

C22_Witness ==
    /\ Reversed("sale") /\ ~HasItem(pre.items, last.args.item_name)
    /\ HasItem(items, last.args.item_name)
    /\ ItemOf(items, last.args.item_name).stock > 0
    /\ Len(ledger_entries) < Len(pre.ledger_entries)

\* C23: deleting with reversal an adjustment entry sets the stock of the item to
\* the entry's old_stock, whatever the stock was changed to after the entry; when
\* the item is gone the catalog is left as it is; the entry is removed either way.
C23_AdjustmentReversalRestores ==
    Reversed("adjustment") =>
        LET e == pre.ledger_entries[DeletedAt]
            n == last.args.item_name
        IN  /\ ledger_entries = PopAt(pre.ledger_entries, DeletedAt)
            /\ IF HasItem(pre.items, n)
               THEN /\ HasItem(items, n)
                    /\ ItemOf(items, n).stock = e.old_stock
                    /\ ItemOf(items, n).price = ItemOf(pre.items, n).price
                    /\ Len(items) = Len(pre.items)
                    /\ OthersKept(n)
               ELSE items = pre.items

C23_Witness ==
    /\ Reversed("adjustment") /\ HasItem(pre.items, last.args.item_name)
    /\ ItemOf(pre.items, last.args.item_name).stock
          # pre.ledger_entries[DeletedAt].new_stock
    /\ ItemOf(pre.items, last.args.item_name).stock
          # pre.ledger_entries[DeletedAt].old_stock
    /\ ItemOf(items, last.args.item_name).stock = pre.ledger_entries[DeletedAt].old_stock

\* C24: deleting with reversal a price_update entry sets the price of the item to
\* the entry's old_price and leaves its stock; the entry of an update_price holds
\* the price before that call, so deleting it restores that price.
C24_PriceReversalRestores ==
    /\ (Reversed("price_update") /\ HasItem(pre.items, last.args.item_name)) =>
          /\ HasItem(items, last.args.item_name)
          /\ ItemOf(items, last.args.item_name).price
                = pre.ledger_entries[DeletedAt].old_price
          /\ ItemOf(items, last.args.item_name).stock
                = ItemOf(pre.items, last.args.item_name).stock
          /\ ledger_entries = PopAt(pre.ledger_entries, DeletedAt)
    /\ (last.op = "update_price" /\ last.result) =>
          \E i \in 1..Len(ledger_entries) :
              /\ ledger_entries[i].timestamp = last.time
              /\ ledger_entries[i].item_name = last.args.item_name
              /\ ledger_entries[i].old_price = ItemOf(pre.items, last.args.item_name).price
    /\ (/\ Reversed("price_update") /\ last.args.timestamp = SessionStart
        /\ clock = SessionStart + 2 /\ HasItem(start.items, last.args.item_name)) =>
          /\ HasItem(items, last.args.item_name)
          /\ ItemOf(items, last.args.item_name).price
                = ItemOf(start.items, last.args.item_name).price

C24_Witness ==
    /\ Reversed("price_update") /\ last.args.timestamp = SessionStart
    /\ clock = SessionStart + 2
    /\ HasItem(pre.items, last.args.item_name)
    /\ ItemOf(pre.items, last.args.item_name).price
          # ItemOf(start.items, last.args.item_name).price
    /\ ItemOf(items, last.args.item_name).price
          = ItemOf(start.items, last.args.item_name).price

\* C25: delete_ledger_entry on a purchase entry returns success, removes that
\* entry and no other, and leaves the cash balance, the cash transactions and the
\* catalog as they were; for an entry of any type, with or without reversal, the
\* entry matched is removed and no other entry is.
C25_DeleteRemovesOnlyTheEntry ==
    /\ DeletedEntry =>
          /\ ledger_entries = PopAt(pre.ledger_entries, DeletedAt)
          /\ Len(ledger_entries) = Len(pre.ledger_entries) - 1
          /\ cash_balance = pre.cash_balance
          /\ cash_transactions = pre.cash_transactions
          /\ pre.ledger_entries[DeletedAt].transaction_type = "purchase"
                => items = pre.items
    /\ (/\ last.op = "delete_ledger_entry"
        /\ \E i \in 1..Len(pre.ledger_entries) :
              /\ pre.ledger_entries[i].timestamp = last.args.timestamp
              /\ pre.ledger_entries[i].item_name = last.args.item_name)
          => last.result

C25_Witness ==
    /\ Reversed("purchase")
    /\ HasItem(pre.items, last.args.item_name)
    /\ pre.ledger_entries[DeletedAt].old_stock
          # ItemOf(pre.items, last.args.item_name).stock
    /\ items = pre.items
    /\ cash_transactions # <<>>
    /\ cash_balance = pre.cash_balance

\* C26: delete_transaction(timestamp, description, reverse = True) on a
\* transaction that matches takes the value stored in it from the current
\* balance, removes that transaction and no other and returns success; when no
\* transaction matches it returns failure and leaves the balance and the
\* transactions as they were.
C26_DeleteTransaction ==
    last.op = "delete_transaction" =>
        LET hits == {i \in 1..Len(pre.cash_transactions) :
                        /\ pre.cash_transactions[i].timestamp = last.args.timestamp
                        /\ pre.cash_transactions[i].item_name = last.args.description}
        IN  IF hits = {}
            THEN /\ ~last.result
                 /\ cash_balance = pre.cash_balance
                 /\ cash_transactions = pre.cash_transactions
            ELSE /\ last.result
                 /\ Len(cash_transactions) = Len(pre.cash_transactions) - 1
                 /\ \E i \in hits :
                       /\ cash_transactions = PopAt(pre.cash_transactions, i)
                       /\ last.args.reverse_transaction =>
                             cash_balance
                                = pre.cash_balance - pre.cash_transactions[i].value

C26_Witness ==
    /\ last.op = "delete_transaction" /\ last.result
    /\ last.args.reverse_transaction
    /\ Len(pre.cash_transactions) >= 2
    /\ pre.cash_transactions[1].timestamp = last.args.timestamp
    /\ pre.cash_transactions[1].value # 0
    /\ pre.cash_transactions[1].value # pre.cash_balance
    /\ cash_balance = pre.cash_balance - pre.cash_transactions[1].value

\* the sum of the value fields of a list of transactions
SumValues(txs) ==
    LET sum[i \in 0..Len(txs)] == IF i = 0 THEN 0 ELSE sum[i - 1] + txs[i].value
    IN  sum[Len(txs)]

\* C27: from an empty cash store, after any sequence of cash add, withdraw and set
\* entries, cash-funded purchases and delete_transaction calls with reversal, the
\* cash balance is the sum of the values of the transactions in the list.
C27_BalanceIsSumOfValues == cash_balance = SumValues(cash_transactions)

C27_Witness ==
    /\ last.op = "delete_transaction" /\ last.result
    /\ cash_balance # pre.cash_balance
    /\ cash_balance # 0
    /\ \E i \in 1..Len(cash_transactions) : cash_transactions[i].value < 0
    /\ cash_balance = SumValues(cash_transactions)

\* C28: a cash-funded purchase never raises the cash balance: after every call of
\* update_stock or adjust_stock with transaction_type = "purchase" and use_cash =
\* True, a call that lowers the stock too, the balance is at most what it was.
C28_PurchaseNeverCredits ==
    (/\ last.op \in {"update_stock", "adjust_stock"}
     /\ last.args.transaction_type = "purchase" /\ last.args.use_cash)
        => cash_balance <= pre.cash_balance

\* the first two calls of the session were mark_as_sold and the deletion, with
\* reversal, of the sale entry it recorded
SoldThenUndone ==
    /\ clock = SessionStart + 2
    /\ Reversed("sale")
    /\ last.args.timestamp = SessionStart

\* C29 as stated: mark_as_sold followed at once by the deletion with reversal of
\* its sale entry restores the stock of the item and the ledger to what they were
\* before the sale, for every length of the ledger up to the cap of 1000 entries,
\* the cap included.
C29_SellThenUndoRestores ==
    (SoldThenUndone /\ Len(start.ledger_entries) <= LedgerCap)
        => /\ items = start.items
           /\ ledger_entries = start.ledger_entries

\* C29, amended: the stock and the ledger are restored for every length of the
\* ledger below the cap; with the ledger at the cap the stock is restored and the
\* ledger has lost its oldest entry, which the sale pushed out.
C29_SellThenUndoBelowCap ==
    /\ (SoldThenUndone /\ Len(start.ledger_entries) < LedgerCap)
          => /\ items = start.items
             /\ ledger_entries = start.ledger_entries
    /\ (SoldThenUndone /\ Len(start.ledger_entries) = LedgerCap)
          => /\ items = start.items
             /\ ledger_entries = SubSeq(start.ledger_entries, 1, LedgerCap - 1)

C29_Witness ==
    /\ SoldThenUndone
    /\ Len(start.ledger_entries) = LedgerCap - 1
    /\ Len(pre.ledger_entries) = LedgerCap
    /\ pre.items # start.items
    /\ items = start.items
    /\ ledger_entries = start.ledger_entries

\* C30: update_item changes the item it is called on and no other: after every
\* call, a rename to the name of another item included, every item of the catalog
\* but the one named by item_name has the price and the stock it had, and the
\* catalog has as many items as before.
C30_UpdateItemFrame ==
    last.op = "update_item" =>
        /\ Len(items) = Len(pre.items)
        /\ \A i \in 1..Len(pre.items) :
              pre.items[i].name # last.args.item_name
                 => /\ HasItem(items, pre.items[i].name)
                    /\ ItemOf(items, pre.items[i].name).price = pre.items[i].price
                    /\ ItemOf(items, pre.items[i].name).stock = pre.items[i].stock

=============================================================================
